---- MODULE Spec2Model ----
(***************************************************************************)
(* go-hostpool: a client-side host selector.  The repository holds three   *)
(* designs of the same pool, and the model carries all of them, told apart *)
(* by the variable design, which never changes after construction:         *)
(*   "pool"     hostpool.go 1-420: standardHostPool with a hostList slice, *)
(*              epsilonGreedyHostPool taking the pool lock in Get;         *)
(*   "actor"    hostpool.go 422-674 with unnamed/part_000 and              *)
(*              epsilon_decay.go: every hostEntry and every decay store is *)
(*              a goroutine serving requests, epsilonGreedyHostPool.Get    *)
(*              takes no lock;                                             *)
(*   "selector" unnamed/part_005 and unnamed/part_001: standardSelector    *)
(*              and epsilonGreedySelector behind the Selector interface.   *)
(* adaptive tells a pool built by NewEpsilonGreedy from one built by New.  *)
(*                                                                         *)
(* Time is counted in units of 30 s, so initialRetryDelay (30 s) is 1 and  *)
(* maxRetryInterval (900 s) is 30.  Response times are counted in the same *)
(* unit.  Callers are goroutines; each step of a caller is one statement   *)
(* (or one critical section) of the source, and Tick lets the wall clock   *)
(* advance between any two steps.                                          *)
(***************************************************************************)
EXTENDS Integers, Naturals, Sequences, FiniteSets, TLC

\* ------------------------------------------------------------- bounds
NumHosts == 2
NumCallers == 2
\* the clock's last tick in a run of a single caller
MaxTime == 3
\* the clock's last tick while callers share the pool
MaxSharedTime == 1
\* epsilonBuckets is 120 in the source; the ring is modelled with NumBuckets
NumBuckets == 2
\* samples one bucket may hold before a further Mark(nil) is held back
MaxSamples == 1
\* Mark calls made on one handle
MaxMarks == 2
\* exploration events (each multiplies epsilon by epsilonDecay)
MaxExplore == 2
\* rand.Float64() is drawn from {0/DrawSteps, ..., (DrawSteps-1)/DrawSteps}
DrawSteps == 2
\* API calls (Get, Mark, ResetAll) made on a pool that NumCallers callers share
MaxCalls == 3
\* API calls made on a pool built by New that a single caller uses
MaxSeqCalls == 8
\* API calls made on a pool built by NewEpsilonGreedy that a single caller uses
MaxAdaptiveCalls == 5
\* the clock's last tick in the run of a hostEntry taken alone
MaxHostTime == 70
\* Gets of the run in which every Get explores
MaxDecaySteps == 36
\* API calls and the clock's last tick in the run where callers share a
\* round-robin selector
MaxProbeCalls == 6
MaxProbeTime == 2
\* scores recorded in a decay store taken alone are 0..MaxScore, and one of
\* its buckets holds at most MaxStoreSamples of them
MaxScore == 3
MaxStoreSamples == 2
MaxLiveCalls == 3
MaxLiveTime == 4

\* ---------------------------------------------------------- constants
initialRetryDelay == 1
maxRetryInterval == 30
\* epsilon is a float32; a float32 is modelled by its 24-bit significand m and
\* the exponent e with value m / 2^e. The three constants are the float32
\* nearest to 0.90, 0.01 and 0.3
epsilonDecay == [m |-> 15099494, e |-> 24]
minEpsilon == [m |-> 10737418, e |-> 30]
initialEpsilon == [m |-> 10066330, e |-> 25]

Hosts == 1..NumHosts
Callers == 1..NumCallers
Buckets == 0..(NumBuckets - 1)
NoHost == 0
\* a host id that was not given to the constructor
UnknownHost == NumHosts + 1
NoCaller == 0
NoHandle == [host |-> NoHost, once |-> "none", started |-> 0, marks |-> 0, applied |-> 0]

VARIABLES
  design,          \* "pool" | "actor" | "selector"
  adaptive,        \* built by NewEpsilonGreedy
  now,             \* the wall clock, time.Now()
  hosts,           \* host id -> hostEntry {dead, retryDelay, nextRetry}
  nextHostIndex,   \* the round-robin cursor
  lockHolder,      \* the caller holding the pool's RWMutex, or NoCaller
  epsilon,         \* the exploration factor, a rational <<num, den>>
  epsilonIndex,    \* host id -> index of the bucket accepting writes
  epsilonCounts,   \* host id -> bucket -> number of samples
  epsilonValues,   \* host id -> bucket -> sum of samples
  handles,         \* caller -> the HostPoolResponse its last Get returned, with
                   \* the number of Mark calls made on it (marks) and the
                   \* number of times markSuccess/markFailed ran for it (applied)
  pc,              \* caller -> the statement it is at
  loc,             \* caller -> its local variables
  picks,           \* the hosts handed out by the round-robin scan of a pool
                   \* built by New since the last mark, reset or dead host
                   \* (at most 2*NumHosts kept)
  calls,           \* the number of API calls made so far
  bound            \* the run's bounds: its callers, API calls and clock

vars == <<design, adaptive, now, hosts, nextHostIndex, lockHolder, epsilon,
          epsilonIndex, epsilonCounts, epsilonValues, handles, pc, loc, picks,
          calls, bound>>

poolVars == <<hosts, nextHostIndex, epsilon, epsilonIndex, epsilonCounts, epsilonValues>>
decayVars == <<epsilonIndex, epsilonCounts, epsilonValues>>
configVars == <<design, adaptive, bound>>
\* what a step made inside a call leaves alone
fixedVars == <<design, adaptive, bound, now, calls>>

\* ------------------------------------------------------------ helpers
Min(a, b) == IF a < b THEN a ELSE b

RECURSIVE GCD(_, _)
GCD(a, b) == IF b = 0 THEN a ELSE GCD(b, a % b)

\* non-negative rationals <<num, den>>, den > 0, kept in lowest terms
Norm(r) ==
  IF r[1] = 0 THEN <<0, 1>>
  ELSE LET g == GCD(r[1], r[2]) IN <<r[1] \div g, r[2] \div g>>
RAdd(a, b) == Norm(<<a[1] * b[2] + b[1] * a[2], a[2] * b[2]>>)
RMul(a, b) == Norm(<<a[1] * b[1], a[2] * b[2]>>)
RDiv(a, b) == Norm(<<a[1] * b[2], a[2] * b[1]>>)
RLess(a, b) == a[1] * b[2] < b[1] * a[2]
RLeq(a, b) == a[1] * b[2] <= b[1] * a[2]

RECURSIVE Pow2(_)
Pow2(k) == IF k = 0 THEN 1 ELSE 2 * Pow2(k - 1)

\* the float32 product x * y, rounded to nearest, ties to even. The 48-bit
\* product of the significands is hi * 2^24 + lo, built from 12-bit halves
F32Mul(x, y) ==
  LET a == x.m \div Pow2(12)
      b == x.m % Pow2(12)
      c == y.m \div Pow2(12)
      d == y.m % Pow2(12)
      mid == a * d + b * c
      low == b * d + (mid % Pow2(12)) * Pow2(12)
      hi == a * c + (mid \div Pow2(12)) + (low \div Pow2(24))
      lo == low % Pow2(24)
      wide == hi >= Pow2(23)
      kept == IF wide THEN hi ELSE 2 * hi + (lo \div Pow2(23))
      dropped == IF wide THEN lo ELSE lo % Pow2(23)
      half == IF wide THEN Pow2(23) ELSE Pow2(22)
      up == dropped > half \/ (dropped = half /\ kept % 2 = 1)
      m == IF up THEN kept + 1 ELSE kept
      e == x.e + y.e - (IF wide THEN 24 ELSE 23)
  IN IF m = Pow2(24) THEN [m |-> Pow2(23), e |-> e - 1] ELSE [m |-> m, e |-> e]

\* x < y on positive float32
F32Less(x, y) == x.e > y.e \/ (x.e = y.e /\ x.m < y.m)

\* ---------------------------------------------------------- hostEntry
\* the host at position i (0-based) of hostList; ids are sorted, id = i + 1
HostAt(i) == i + 1

\* a cursor moved two places on
advanceByTwo(currentIndex) == currentIndex + 2

\* a cursor left where the scan found its host
advanceStuck(currentIndex) == currentIndex

\* getRoundRobin: p.nextHostIndex = currentIndex + 1
advance(currentIndex) == currentIndex + 1

\* a fail-open branch that returns no host
noFirstHost == NoHost

\* getRoundRobin with every host down: p.hostList()[0]
firstHost == HostAt(0)

newHostEntry == [dead |-> FALSE, retryDelay |-> initialRetryDelay, nextRetry |-> 0]

\* a setDead(true) that arms the retry timer of a host already dead
SetDeadRearms(he, newVal) ==
  IF newVal
  THEN [dead |-> TRUE, retryDelay |-> initialRetryDelay,
        nextRetry |-> now + initialRetryDelay]
  ELSE [he EXCEPT !.dead = newVal]

\* setDeadRequest: entering the dead state arms the retry timer
SetDead(he, newVal) ==
  IF newVal /\ ~he.dead
  THEN [dead |-> TRUE, retryDelay |-> initialRetryDelay,
        nextRetry |-> now + initialRetryDelay]
  ELSE [he EXCEPT !.dead = newVal]

\* a check that never lets a dead host be tried
canTryAliveOnly(he, atTime) == ~he.dead

\* a check that lets every host be tried
canTryAlways(he, atTime) == TRUE

\* a check that lets a dead host be tried at its retry time
canTryAtRetryTime(he, atTime) == ~he.dead \/ he.nextRetry <= atTime

\* canTryRequest
canTryHost(he, atTime) == ~he.dead \/ he.nextRetry < atTime

\* a retry delay doubled without the cap
willRetryUncapped(he) ==
  [he EXCEPT !.retryDelay = he.retryDelay * 2, !.nextRetry = now + he.retryDelay * 2]

\* a retry time counted from the previous retry time
willRetryFromLast(he) ==
  LET d == Min(he.retryDelay * 2, maxRetryInterval)
  IN [he EXCEPT !.retryDelay = d, !.nextRetry = he.nextRetry + d]

\* willRetryRequest
willRetryHost(he) ==
  LET d == Min(he.retryDelay * 2, maxRetryInterval)
  IN [he EXCEPT !.retryDelay = d, !.nextRetry = now + d]

\* standardSelector.MarkHost, the update made under the lock
MarkHost(he, failed) ==
  IF ~failed THEN [he EXCEPT !.dead = FALSE]
  ELSE IF ~he.dead
       THEN [dead |-> TRUE, retryDelay |-> initialRetryDelay,
             nextRetry |-> now + initialRetryDelay]
       ELSE he

\* a reset that revives no host
doResetNone(hs) == hs

\* doResetAll
doResetAll(hs) == [h \in DOMAIN hs |-> SetDead(hs[h], FALSE)]

\* -------------------------------------------------------- decay window
emptyWindow == [b \in Buckets |-> 0]

\* getWeightedAverageResponseTime / getWeightedAverageScore: the loop from
\* bucket i on, with the running value and lastValue
RECURSIVE weightedAverageFrom(_, _, _, _, _, _)
weightedAverageFrom(index, counts, values, i, value, lastValue) ==
  IF i > NumBuckets THEN value
  ELSE LET pos == (index + i) % NumBuckets
           bucketCount == counts[pos]
           weight == <<i, NumBuckets>>
       IN IF bucketCount > 0
          THEN LET currentValue == Norm(<<values[pos], bucketCount>>)
               IN weightedAverageFrom(index, counts, values, i + 1,
                                      RAdd(value, RMul(currentValue, weight)),
                                      currentValue)
          ELSE weightedAverageFrom(index, counts, values, i + 1,
                                   RAdd(value, RMul(lastValue, weight)),
                                   lastValue)

\* the loop entered one bucket late, leaving the oldest bucket out
averageSkippingOldest(index, counts, values) ==
  weightedAverageFrom(index, counts, values, 2, <<0, 1>>, <<0, 1>>)

\* the loop entered at the newest bucket instead of the oldest
averageFromNewest(index, counts, values) ==
  weightedAverageFrom(index, counts, values, 0, <<0, 1>>, <<0, 1>>)

getWeightedAverageResponseTime(index, counts, values) ==
  weightedAverageFrom(index, counts, values, 1, <<0, 1>>, <<0, 1>>)

hostAverage(h) ==
  getWeightedAverageResponseTime(epsilonIndex[h], epsilonCounts[h], epsilonValues[h])

\* LinearEpsilonValueCalculator: 1.0 / v, for v > 0
CalcValueFromAvgResponseTime(v) == <<v[2], v[1]>>

\* a host enters possibleHosts when it can be tried and has a positive average
scorable(h, atTime) ==
  canTryHost(hosts[h], atTime) /\ RLess(<<0, 1>>, hostAverage(h))

\* possibleHosts, walking hostList from position i
RECURSIVE possibleHostsFrom(_, _)
possibleHostsFrom(i, atTime) ==
  IF i >= NumHosts THEN <<>>
  ELSE (IF scorable(HostAt(i), atTime) THEN <<HostAt(i)>> ELSE <<>>)
       \o possibleHostsFrom(i + 1, atTime)

\* the epsilonValue of each possible host, computed in the scan that found it
epsilonValuesOf(possibleHosts) ==
  [k \in DOMAIN possibleHosts |->
     CalcValueFromAvgResponseTime(hostAverage(possibleHosts[k]))]

RECURSIVE sumValuesFrom(_, _)
sumValuesFrom(epsilonValue, k) ==
  IF k > Len(epsilonValue) THEN <<0, 1>>
  ELSE RAdd(epsilonValue[k], sumValuesFrom(epsilonValue, k + 1))

\* the weighted random choice: the first host whose ceiling reaches
\* pickPercentage, NoHost when none does
RECURSIVE weightedChoiceFrom(_, _, _, _, _, _)
weightedChoiceFrom(possibleHosts, epsilonValue, k, ceiling, sumValues, pickPercentage) ==
  IF k > Len(possibleHosts) THEN NoHost
  ELSE LET epsilonPercentage == RDiv(epsilonValue[k], sumValues)
           newCeiling == RAdd(ceiling, epsilonPercentage)
       IN IF RLeq(pickPercentage, newCeiling) THEN possibleHosts[k]
          ELSE weightedChoiceFrom(possibleHosts, epsilonValue, k + 1, newCeiling,
                                  sumValues, pickPercentage)

\* a choice that takes the head of hostList whatever the scores are
firstOfHostList(possibleHosts, epsilonValue, pickPercentage, lostToRounding) == HostAt(0)

\* lostToRounding: the float64 ceiling fell short of pickPercentage
weightedChoice(possibleHosts, epsilonValue, pickPercentage, lostToRounding) ==
  IF Len(possibleHosts) = 0 \/ lostToRounding THEN NoHost
  ELSE weightedChoiceFrom(possibleHosts, epsilonValue, 1, <<0, 1>>,
                          sumValuesFrom(epsilonValue, 1), pickPercentage)

Draws == {<<k, DrawSteps>> : k \in 0..(DrawSteps - 1)}

\* an exploration step that never floors epsilon
decayNoFloor(e) == F32Mul(e, epsilonDecay)

\* the exploration step's update of epsilon, from the value read
decayEpsilon(e) ==
  LET d == F32Mul(e, epsilonDecay)
  IN IF F32Less(d, minEpsilon) THEN minEpsilon ELSE d

\* epsilon after k exploration steps of a new pool
RECURSIVE epsilonAfter(_)
epsilonAfter(k) == IF k = 0 THEN initialEpsilon ELSE decayEpsilon(epsilonAfter(k - 1))

\* a rotation that leaves the index where it is
rotateStuck(index) == index

\* performEpsilonGreedyDecay / performDecay on one host's ring
rotateIndex(index) == (index + 1) % NumBuckets

\* host h's decay window
windowOf(h) ==
  [index |-> epsilonIndex[h], counts |-> epsilonCounts[h], values |-> epsilonValues[h]]

\* performDecay, and the body of performEpsilonGreedyDecay's loop: the index
\* moves on and the bucket it arrives at is zeroed
rotateWindow(w) ==
  LET i == rotateIndex(w.index)
  IN [index |-> i,
      counts |-> [w.counts EXCEPT ![i] = 0],
      values |-> [w.values EXCEPT ![i] = 0]]

\* recording one sample into the current bucket
recordCounts(counts, index) == [counts EXCEPT ![index] = @ + 1]
recordValues(values, index, sample) == [values EXCEPT ![index] = @ + sample]

\* timer.between
between(started, ended) == ended - started

\* ------------------------------------------------------- construction
InitLoc ==
  [tnow |-> 0, idx |-> 0, cur |-> 0, sel |-> NoHost, tgt |-> NoCaller,
   err |-> FALSE, leps |-> [m |-> 0, e |-> 0], markNo |-> 0, poss |-> <<>>,
   vals |-> <<>>, pick |-> <<0, 1>>, todo |-> {},
   ended |-> 0, probe |-> FALSE, retries |-> 0]

\* callers sharing one pool, and a single caller making a longer run
SharedRun ==
  [callers |-> Callers, calls |-> MaxCalls, time |-> MaxSharedTime, decays |-> TRUE,
   explore |-> MaxExplore]
LongRun ==
  [callers |-> {1}, calls |-> IF adaptive THEN MaxAdaptiveCalls ELSE MaxSeqCalls,
   time |-> MaxTime, decays |-> FALSE, explore |-> MaxExplore]

\* a single caller whose every Get explores
EpsilonRun ==
  [callers |-> {1}, calls |-> MaxDecaySteps, time |-> 0, decays |-> FALSE,
   explore |-> MaxDecaySteps]

\* a hostEntry taken alone and served its requests until the clock reads
\* MaxHostTime
HostRun ==
  [callers |-> {}, calls |-> 0, time |-> MaxHostTime, decays |-> FALSE,
   explore |-> MaxExplore]

\* New / NewEpsilonGreedy, standardSelector.Init, given the hosts of hostSet:
\* the constructors take any list, the empty one too
ConstructedFrom(hostSet) ==
  /\ design \in {"pool", "actor", "selector"}
  /\ adaptive \in BOOLEAN
  /\ now = 0
  /\ hosts = [h \in hostSet |-> newHostEntry]
  /\ nextHostIndex = 0
  /\ lockHolder = NoCaller
  /\ epsilon = initialEpsilon
  /\ epsilonIndex = [h \in hostSet |-> 0]
  /\ epsilonCounts = [h \in hostSet |-> emptyWindow]
  /\ epsilonValues = [h \in hostSet |-> emptyWindow]
  /\ handles = [t \in Callers |-> NoHandle]
  /\ pc = [t \in Callers |-> "idle"]
  /\ loc = [t \in Callers |-> InitLoc]
  /\ picks = <<>>
  /\ calls = 0

Constructed == ConstructedFrom(Hosts)

\* New([]string{}) used by callers that share it
InitEmpty ==
  /\ ConstructedFrom({})
  /\ ~adaptive
  /\ bound = SharedRun

Init ==
  /\ Constructed
  /\ bound \in {SharedRun, LongRun}

InitEpsilon ==
  /\ Constructed
  /\ adaptive
  /\ bound = EpsilonRun

\* callers sharing a round-robin selector for a longer run
ProbeRun ==
  [callers |-> Callers, calls |-> MaxProbeCalls, time |-> MaxProbeTime,
   decays |-> FALSE, explore |-> MaxExplore]

InitProbe ==
  /\ Constructed
  /\ ~adaptive
  /\ design = "selector"
  /\ bound = ProbeRun

\* a round-robin pool whose caller calls Get for ever, with a few marks
LiveRun ==
  [callers |-> {1}, calls |-> MaxLiveCalls, time |-> MaxLiveTime,
   decays |-> FALSE, explore |-> MaxExplore]

InitLive ==
  /\ Constructed
  /\ ~adaptive
  /\ bound = LiveRun

\* a decay store taken alone (NewDecayStore), served its requests
StoreRun ==
  [callers |-> {}, calls |-> 0, time |-> 0, decays |-> TRUE, explore |-> MaxExplore]

InitStore ==
  /\ Constructed
  /\ adaptive
  /\ design = "actor"
  /\ bound = StoreRun

InitHost ==
  /\ Constructed
  /\ ~adaptive
  /\ design \in {"actor", "selector"}
  /\ bound = HostRun

\* --------------------------------------------------------------- lock
\* a lock that excludes nobody
lockAlways(t) == TRUE

\* sync.RWMutex.Lock: blocks while any caller, the locker included, holds it
CanLock(t) == lockHolder = NoCaller

GetPcs == {"rrLock", "rrStart", "rrScan", "rrDead", "rrRetry", "rrAdvance",
           "rrReset", "rrDone", "mhr", "egLock", "egRand", "egDecay", "egPick",
           "egRetry", "egDone", "egUnlock", "egScan", "egIsDead"}
MarkPcs == {"recTiming", "markOnce", "mkSuccess", "mkRecord", "mkFailed"}

AllAlive == \A h \in Hosts : ~hosts[h].dead
Marking == \E t \in Callers : pc[t] \in MarkPcs

\* the log of round-robin picks after handing out h
logPick(h) ==
  IF ~adaptive /\ AllAlive /\ ~Marking
  THEN (IF Len(picks) >= 2 * NumHosts THEN Tail(picks) ELSE picks) \o <<h>>
  ELSE <<>>

newHandle(h) ==
  [host |-> h, once |-> "fresh", started |-> IF adaptive THEN now ELSE 0,
   marks |-> 0, applied |-> 0]

\* a caller returns to its idle loop
Return(t) ==
  /\ pc' = [pc EXCEPT ![t] = "idle"]
  /\ loc' = [loc EXCEPT ![t] = InitLoc]

Goto(t, label) == pc' = [pc EXCEPT ![t] = label]

\* no Mark on caller o's handle is under way
Unmarked(o) == \A u \in Callers : pc[u] \in MarkPcs => loc[u].tgt # o

\* ---------------------------------------------------------------- Get
\* HostPool.Get is called: standardHostPool.Get and standardSelector.
\* SelectNextHost start by taking the lock, as do epsilonGreedyHostPool.Get of
\* the pool design and epsilonGreedySelector.SelectNextHost; the actor design's
\* epsilonGreedyHostPool.Get goes straight to getEpsilonGreedy
GetCall(t) ==
  /\ pc[t] = "idle"
  /\ Unmarked(t)
  /\ calls < bound.calls
  /\ calls' = calls + 1
  /\ Goto(t, IF ~adaptive THEN "rrLock"
             ELSE IF design = "actor" THEN "egRand" ELSE "egLock")
  /\ UNCHANGED <<configVars, now, poolVars, lockHolder, handles, loc, picks>>

\* HostPool.Get of a round-robin pool, called by a caller that goes on calling
\* it for ever: the call is not counted against the calls of the run
GetForever(t) ==
  /\ pc[t] = "idle"
  /\ Unmarked(t)
  /\ ~adaptive
  /\ Goto(t, "rrLock")
  /\ UNCHANGED <<configVars, now, calls, poolVars, lockHolder, handles, loc, picks>>

\* p.Lock() of standardHostPool.Get, s.Lock() of standardSelector.SelectNextHost
RRLock(t) ==
  /\ pc[t] = "rrLock"
  /\ CanLock(t)
  /\ lockHolder' = t
  /\ Goto(t, "rrStart")
  /\ UNCHANGED <<fixedVars, poolVars, handles, loc, picks>>

\* getRoundRobin: now := time.Now()
RRStart(t) ==
  /\ pc[t] = "rrStart"
  /\ loc' = [loc EXCEPT ![t].tnow = now, ![t].idx = 0]
  /\ Goto(t, "rrScan")
  /\ UNCHANGED <<fixedVars, poolVars, lockHolder, handles, picks>>

\* hostCount := len(p.hostList)
hostCount == Cardinality(DOMAIN hosts)

\* getRoundRobin: one iteration of the scan, or its end
RRScan(t) ==
  /\ pc[t] = "rrScan"
  /\ IF loc[t].idx < hostCount
     THEN LET currentIndex == (loc[t].idx + nextHostIndex) % hostCount
              h == HostAt(currentIndex)
          IN IF canTryHost(hosts[h], loc[t].tnow)
             THEN /\ loc' = [loc EXCEPT ![t].cur = currentIndex, ![t].sel = h,
                                        ![t].probe = hosts[h].dead]
                  /\ Goto(t, IF design = "selector" THEN "rrAdvance" ELSE "rrDead")
             ELSE /\ loc' = [loc EXCEPT ![t].idx = @ + 1]
                  /\ UNCHANGED pc
     ELSE /\ Goto(t, "rrReset")
          /\ UNCHANGED loc
  /\ UNCHANGED <<fixedVars, poolVars, lockHolder, handles, picks>>

\* getRoundRobin of the pool and actor designs: if h.IsDead()
RRDead(t) ==
  /\ pc[t] = "rrDead"
  /\ Goto(t, IF hosts[loc[t].sel].dead THEN "rrRetry" ELSE "rrAdvance")
  /\ UNCHANGED <<fixedVars, poolVars, lockHolder, handles, loc, picks>>

\* getRoundRobin of the pool and actor designs: h.willRetryHost()
RRRetry(t) ==
  /\ pc[t] = "rrRetry"
  /\ hosts' = [hosts EXCEPT ![loc[t].sel] = willRetryHost(@)]
  /\ loc' = [loc EXCEPT ![t].retries = @ + 1]
  /\ Goto(t, "rrAdvance")
  /\ UNCHANGED <<fixedVars, nextHostIndex, epsilon, decayVars, lockHolder,
                 handles, picks>>

\* getRoundRobin: nextHostIndex = currentIndex + 1; return h.Host()
RRAdvance(t) ==
  /\ pc[t] = "rrAdvance"
  /\ nextHostIndex' = advance(loc[t].cur)
  /\ picks' = logPick(loc[t].sel)
  /\ Goto(t, "rrDone")
  /\ UNCHANGED <<fixedVars, hosts, epsilon, decayVars, lockHolder, handles, loc>>

\* getRoundRobin: all hosts are down: doResetAll, nextHostIndex = 0, hostList[0]
\* On a pool built from an empty list hostList[0] is out of range: the Get
\* panics, which ends the process; the deferred Unlock of standardHostPool.Get
\* runs, SelectNextHost has none
RRReset(t) ==
  /\ pc[t] = "rrReset"
  /\ hosts' = doResetAll(hosts)
  /\ nextHostIndex' = 0
  /\ picks' = <<>>
  /\ IF hostCount > 0
     THEN /\ loc' = [loc EXCEPT ![t].sel = firstHost]
          /\ Goto(t, "rrDone")
          /\ UNCHANGED lockHolder
     ELSE /\ pc' = [u \in Callers |-> IF u = t THEN "panicked" ELSE "exited"]
          /\ lockHolder' = IF design = "selector" THEN t ELSE NoCaller
          /\ UNCHANGED loc
  /\ UNCHANGED <<fixedVars, epsilon, decayVars, handles>>

\* the unlock ending standardHostPool.Get (which returns the response) or
\* standardSelector.SelectNextHost (after which the pool asks the selector
\* for the response)
RRDone(t) ==
  /\ pc[t] = "rrDone"
  /\ lockHolder' = NoCaller
  /\ IF design = "selector"
     THEN /\ Goto(t, "mhr")
          /\ UNCHANGED <<handles, loc>>
     ELSE /\ handles' = [handles EXCEPT ![t] = newHandle(loc[t].sel)]
          /\ Return(t)
  /\ UNCHANGED <<fixedVars, poolVars, picks>>

\* standardSelector.MakeHostResponse (one critical section), wrapped by
\* epsilonGreedySelector.MakeHostResponse when adaptive
MakeHostResponse(t) ==
  /\ pc[t] = "mhr"
  /\ CanLock(t)
  /\ LET h == loc[t].sel
     IN /\ hosts' = [hosts EXCEPT ![h] =
                       IF @.dead /\ @.nextRetry < now THEN willRetryHost(@) ELSE @]
        /\ handles' = [handles EXCEPT ![t] = newHandle(h)]
  /\ Return(t)
  /\ UNCHANGED <<fixedVars, nextHostIndex, epsilon, decayVars, lockHolder, picks>>

\* p.Lock() of epsilonGreedyHostPool.Get (pool design), s.Lock() of
\* epsilonGreedySelector.SelectNextHost
EGLock(t) ==
  /\ pc[t] = "egLock"
  /\ CanLock(t)
  /\ lockHolder' = t
  /\ Goto(t, "egRand")
  /\ UNCHANGED <<fixedVars, poolVars, handles, loc, picks>>

\* getEpsilonGreedy: rand.Float32() < epsilon, the exploration phase; the
\* caller reads epsilon
EGExplore(t) ==
  /\ pc[t] = "egRand"
  /\ IF bound.explore >= bound.calls THEN TRUE
     ELSE ~F32Less(epsilon, epsilonAfter(bound.explore - 1))
  /\ loc' = [loc EXCEPT ![t].leps = epsilon]
  /\ Goto(t, "egDecay")
  /\ UNCHANGED <<fixedVars, poolVars, lockHolder, handles, picks>>

\* getEpsilonGreedy: epsilon = epsilon * epsilonDecay, floored at minEpsilon;
\* then the round-robin pick: p.HostPool.Get() in the pool and actor designs,
\* an error returned to SelectNextHost in the selector design
EGDecay(t) ==
  /\ pc[t] = "egDecay"
  /\ epsilon' = decayEpsilon(loc[t].leps)
  /\ loc' = [loc EXCEPT ![t].sel = NoHost]
  /\ Goto(t, IF design = "selector" THEN "egUnlock" ELSE "rrLock")
  /\ UNCHANGED <<fixedVars, hosts, nextHostIndex, decayVars, lockHolder,
                 handles, picks>>

\* the host a Get has chosen is dead (it was found retryable)
wasDead(h) == h # NoHost /\ hosts[h].dead

\* getEpsilonGreedy, rand.Float32() >= epsilon: the pool and selector designs
\* score the hosts of hostList and draw one, all under the lock
EGPick(t) ==
  /\ pc[t] = "egRand"
  /\ design # "actor"
  /\ \E pickPercentage \in Draws, lostToRounding \in BOOLEAN :
       LET possibleHosts == possibleHostsFrom(0, now)
           hostToUse == weightedChoice(possibleHosts, epsilonValuesOf(possibleHosts),
                                       pickPercentage, lostToRounding)
       IN /\ loc' = [loc EXCEPT ![t].sel = hostToUse, ![t].tnow = now,
                                ![t].pick = pickPercentage,
                                ![t].probe = wasDead(hostToUse)]
          /\ Goto(t, IF design = "selector" THEN "egUnlock"
                     ELSE IF hostToUse = NoHost THEN "rrLock"
                     ELSE IF hosts[hostToUse].dead THEN "egRetry" ELSE "egDone")
  /\ UNCHANGED <<fixedVars, poolVars, lockHolder, handles, picks>>

\* getEpsilonGreedy of the actor design, rand.Float32() >= epsilon
EGExploit(t) ==
  /\ pc[t] = "egRand"
  /\ design = "actor"
  /\ loc' = [loc EXCEPT ![t].tnow = now, ![t].todo = Hosts, ![t].poss = <<>>,
                        ![t].vals = <<>>]
  /\ Goto(t, "egScan")
  /\ UNCHANGED <<fixedVars, poolVars, lockHolder, handles, picks>>

\* actor design: one iteration of "for _, h := range p.hosts" (a map, so in any
\* order): canTryHost and GetWeightedAvgScore, each served by its goroutine;
\* the epsilonValue computed from the score is kept in the epsilonChoice
EGScan(t) ==
  /\ pc[t] = "egScan"
  /\ \E h \in loc[t].todo :
       loc' = [loc EXCEPT ![t].todo = @ \ {h},
                          ![t].poss = IF scorable(h, loc[t].tnow)
                                      THEN Append(@, h) ELSE @,
                          ![t].vals = IF scorable(h, loc[t].tnow)
                                      THEN Append(@, CalcValueFromAvgResponseTime(hostAverage(h)))
                                      ELSE @]
  /\ UNCHANGED <<fixedVars, poolVars, lockHolder, handles, pc, picks>>

\* actor design: the weighted random choice among possibleHosts
EGDraw(t) ==
  /\ pc[t] = "egScan"
  /\ loc[t].todo = {}
  /\ \E pickPercentage \in Draws, lostToRounding \in BOOLEAN :
       LET hostToUse == weightedChoice(loc[t].poss, loc[t].vals, pickPercentage,
                                       lostToRounding)
       IN /\ loc' = [loc EXCEPT ![t].sel = hostToUse, ![t].poss = <<>>,
                                ![t].vals = <<>>, ![t].pick = pickPercentage,
                                ![t].probe = wasDead(hostToUse)]
          /\ Goto(t, IF hostToUse = NoHost THEN "rrLock" ELSE "egIsDead")
  /\ UNCHANGED <<fixedVars, poolVars, lockHolder, handles, picks>>

\* actor design: if hostToUse.he.IsDead()
EGIsDead(t) ==
  /\ pc[t] = "egIsDead"
  /\ Goto(t, IF hosts[loc[t].sel].dead THEN "egRetry" ELSE "egDone")
  /\ UNCHANGED <<fixedVars, poolVars, lockHolder, handles, loc, picks>>

\* getEpsilonGreedy: hostToUse.willRetryHost()
EGRetry(t) ==
  /\ pc[t] = "egRetry"
  /\ hosts' = [hosts EXCEPT ![loc[t].sel] = willRetryHost(@)]
  /\ loc' = [loc EXCEPT ![t].retries = @ + 1]
  /\ Goto(t, "egDone")
  /\ UNCHANGED <<fixedVars, nextHostIndex, epsilon, decayVars, lockHolder,
                 handles, picks>>

\* epsilonGreedyHostPool.Get returns the response with started = time.Now();
\* the pool design unlocks (deferred)
EGDone(t) ==
  /\ pc[t] = "egDone"
  /\ lockHolder' = IF design = "pool" THEN NoCaller ELSE lockHolder
  /\ handles' = [handles EXCEPT ![t] = newHandle(loc[t].sel)]
  /\ Return(t)
  /\ UNCHANGED <<fixedVars, poolVars, picks>>

\* epsilonGreedySelector.SelectNextHost: s.Unlock(); on an error the host comes
\* from s.Selector.SelectNextHost()
EGUnlock(t) ==
  /\ pc[t] = "egUnlock"
  /\ lockHolder' = NoCaller
  /\ Goto(t, IF loc[t].sel = NoHost THEN "rrLock" ELSE "mhr")
  /\ UNCHANGED <<fixedVars, poolVars, handles, loc, picks>>

\* --------------------------------------------------------------- Mark
\* the host a marking caller's handle names
markedHost(t) == handles[loc[t].tgt].host

\* a Mark that records its timing whatever the error
recordsAlways(failed) == design = "selector" /\ adaptive

\* epsilonHostPoolResponse.Mark of the selector design: if err == nil, the
\* timing is recorded before the embedded response's Mark is reached
recordsTiming(failed) == design = "selector" /\ adaptive /\ ~failed

\* a caller calls Mark(err) on the response held in slot o (its own or another
\* caller's).  epsilonHostPoolResponse.Mark of the selector design records the
\* timing of a nil error before it reaches the embedded response's Mark.  The
\* response marked is the one slot o holds for the whole Mark: o is not inside
\* a Get that would replace it
MarkCall(t, o, failed) ==
  /\ pc[t] = "idle"
  /\ pc[o] \notin GetPcs
  /\ handles[o] # NoHandle
  /\ handles[o].marks < MaxMarks
  /\ calls < bound.calls
  /\ calls' = calls + 1
  /\ (adaptive /\ ~failed) =>
        epsilonCounts[handles[o].host][epsilonIndex[handles[o].host]] < MaxSamples
  /\ LET timing == recordsTiming(failed)
     IN /\ handles' = [handles EXCEPT ![o].marks = @ + 1]
        /\ loc' = [loc EXCEPT ![t].tgt = o, ![t].err = failed,
                              ![t].markNo = handles[o].marks + 1,
                              ![t].ended = IF timing THEN now ELSE @]
        /\ Goto(t, IF timing THEN "recTiming" ELSE "markOnce")
  /\ picks' = <<>>
  /\ UNCHANGED <<configVars, now, poolVars, lockHolder>>

\* epsilonGreedySelector.recordTiming
RecordTiming(t) ==
  /\ pc[t] = "recTiming"
  /\ CanLock(t)
  /\ LET r == handles[loc[t].tgt]
         h == r.host
     IN /\ epsilonCounts' = [epsilonCounts EXCEPT ![h] = recordCounts(@, epsilonIndex[h])]
        /\ epsilonValues' = [epsilonValues EXCEPT ![h] =
                               recordValues(@, epsilonIndex[h],
                                            between(r.started, loc[t].ended))]
  /\ Goto(t, "markOnce")
  /\ UNCHANGED <<fixedVars, hosts, nextHostIndex, epsilon, epsilonIndex,
                 lockHolder, handles, loc, picks>>

\* a Once that runs its function on every call
onceAlways(r) == TRUE

\* sync.Once.Do of standardHostPoolResponse.Mark: the first caller runs the
\* function; epsilonHostPoolResponse.Mark of the pool and actor designs sets
\* ended in it.  A caller arriving while it runs waits
onceRuns(r) == r.once = "fresh"

MarkOnce(t) ==
  /\ pc[t] = "markOnce"
  /\ onceRuns(handles[loc[t].tgt])
  /\ handles' = [handles EXCEPT ![loc[t].tgt].once = "running"]
  /\ loc' = [loc EXCEPT ![t].ended = IF adaptive /\ design # "selector" THEN now ELSE @]
  /\ Goto(t, IF loc[t].err THEN "mkFailed" ELSE "mkSuccess")
  /\ UNCHANGED <<fixedVars, poolVars, lockHolder, picks>>

\* sync.Once.Do once the function has run: nothing is done
MarkSkip(t) ==
  /\ pc[t] = "markOnce"
  /\ handles[loc[t].tgt].once = "done"
  /\ Return(t)
  /\ UNCHANGED <<fixedVars, poolVars, lockHolder, handles, picks>>

\* the Once is done when its function returns
onceDone(hs, t) == [hs EXCEPT ![loc[t].tgt].once = "done"]

\* markSuccess or markFailed has run for the handle caller t marks
applyMark(t) == [handles EXCEPT ![loc[t].tgt].applied = @ + 1]

\* standardHostPool.markSuccess / standardSelector.MarkHost(host, nil); the
\* epsilonGreedyHostPool.markSuccess of the pool and actor designs goes on to
\* record the response time
MarkSuccess(t) ==
  /\ pc[t] = "mkSuccess"
  /\ CanLock(t)
  /\ hosts' = [hosts EXCEPT ![markedHost(t)] =
                 IF design = "selector" THEN MarkHost(@, FALSE) ELSE SetDead(@, FALSE)]
  /\ picks' = <<>>
  /\ IF adaptive /\ design # "selector"
     THEN /\ handles' = applyMark(t)
          /\ Goto(t, "mkRecord")
          /\ UNCHANGED loc
     ELSE /\ handles' = onceDone(applyMark(t), t)
          /\ Return(t)
  /\ UNCHANGED <<fixedVars, nextHostIndex, epsilon, decayVars, lockHolder>>

\* epsilonGreedyHostPool.markSuccess: the sample goes into the current bucket,
\* under the pool lock (pool design) or by the decay store's goroutine (actor)
MarkRecord(t) ==
  /\ pc[t] = "mkRecord"
  /\ design = "pool" => CanLock(t)
  /\ LET r == handles[loc[t].tgt]
         h == r.host
     IN /\ epsilonCounts' = [epsilonCounts EXCEPT ![h] = recordCounts(@, epsilonIndex[h])]
        /\ epsilonValues' = [epsilonValues EXCEPT ![h] =
                               recordValues(@, epsilonIndex[h],
                                            between(r.started, loc[t].ended))]
  /\ handles' = onceDone(handles, t)
  /\ Return(t)
  /\ UNCHANGED <<fixedVars, hosts, nextHostIndex, epsilon, epsilonIndex,
                 lockHolder, picks>>

\* standardHostPool.markFailed / standardSelector.MarkHost(host, err)
MarkFailed(t) ==
  /\ pc[t] = "mkFailed"
  /\ CanLock(t)
  /\ hosts' = [hosts EXCEPT ![markedHost(t)] =
                 IF design = "selector" THEN MarkHost(@, TRUE) ELSE SetDead(@, TRUE)]
  /\ picks' = <<>>
  /\ handles' = onceDone(applyMark(t), t)
  /\ Return(t)
  /\ UNCHANGED <<fixedVars, nextHostIndex, epsilon, decayVars, lockHolder>>

\* a lookup that finds every id
hostKnownAlways(host) == TRUE

\* h, ok := p.hosts[host]
hostKnown(host) == host \in Hosts

\* the mark of a host by its id: standardSelector.MarkHost(host, err) of the
\* selector design, markSuccess / markFailed of the pool and actor designs
\* handed a response that names the id.  The id is one the pool was not given
MarkHostCall(t, failed) ==
  /\ pc[t] = "idle"
  /\ calls < bound.calls
  /\ calls' = calls + 1
  /\ loc' = [loc EXCEPT ![t].sel = UnknownHost, ![t].err = failed]
  /\ Goto(t, "markHost")
  /\ UNCHANGED <<configVars, now, poolVars, lockHolder, handles, picks>>

\* the critical section of MarkHost / markSuccess / markFailed: the lookup,
\* log.Fatalf (the process exits, the lock still held) if it finds nothing,
\* the liveness update if it finds the host
MarkHostRun(t) ==
  /\ pc[t] = "markHost"
  /\ CanLock(t)
  /\ IF hostKnown(loc[t].sel)
     THEN /\ hosts' = [h \in Hosts |->
                         IF h # loc[t].sel THEN hosts[h]
                         ELSE IF design = "selector" THEN MarkHost(hosts[h], loc[t].err)
                         ELSE SetDead(hosts[h], loc[t].err)]
          /\ Return(t)
          /\ UNCHANGED lockHolder
     ELSE /\ pc' = [u \in Callers |-> "exited"]
          /\ lockHolder' = t
          /\ UNCHANGED <<hosts, loc>>
  /\ UNCHANGED <<fixedVars, nextHostIndex, epsilon, decayVars, handles, picks>>

\* the process has not exited
Running == \A t \in Callers : pc[t] \notin {"exited", "panicked"}

\* ------------------------------------------------- ResetAll, clock, decay
ResetAll(t) ==
  /\ pc[t] = "idle"
  /\ CanLock(t)
  /\ calls < bound.calls
  /\ calls' = calls + 1
  /\ hosts' = doResetAll(hosts)
  /\ picks' = <<>>
  /\ UNCHANGED <<configVars, now, nextHostIndex, epsilon, decayVars, lockHolder,
                 handles, pc, loc>>

Tick ==
  /\ now < bound.time
  /\ now' = now + 1
  /\ UNCHANGED <<configVars, calls, poolVars, lockHolder, handles, pc, loc, picks>>

\* the ring of host h after one rotation
rotated(h) == rotateWindow(windowOf(h))

\* performEpsilonGreedyDecay: one tick of the pool-wide ticker rotates every
\* host's ring under the lock (pool and selector designs)
PerformEpsilonGreedyDecay ==
  /\ Running
  /\ adaptive
  /\ bound.decays
  /\ design # "actor"
  /\ lockHolder = NoCaller
  /\ epsilonIndex' = [h \in Hosts |-> rotated(h).index]
  /\ epsilonCounts' = [h \in Hosts |-> rotated(h).counts]
  /\ epsilonValues' = [h \in Hosts |-> rotated(h).values]
  /\ UNCHANGED <<fixedVars, hosts, nextHostIndex, epsilon, lockHolder,
                 handles, pc, loc, picks>>

\* performDecay: in the actor design every decay store has a ticker of its own
PerformDecay(h) ==
  /\ Running
  /\ adaptive
  /\ bound.decays
  /\ design = "actor"
  /\ epsilonIndex' = [epsilonIndex EXCEPT ![h] = rotated(h).index]
  /\ epsilonCounts' = [epsilonCounts EXCEPT ![h] = rotated(h).counts]
  /\ epsilonValues' = [epsilonValues EXCEPT ![h] = rotated(h).values]
  /\ UNCHANGED <<fixedVars, hosts, nextHostIndex, epsilon, lockHolder,
                 handles, pc, loc, picks>>

\* ---------------------------------------------------------- Hosts()
\* the orders in which range visits the keys of a map
MapOrders(keys) ==
  {s \in [1..Cardinality(keys) -> keys] : \A i, j \in DOMAIN s : s[i] = s[j] => i = j}

\* hosts := make([]string, len(p.hosts)) in the pool design (a slice of
\* len(p.hosts) empty strings), make([]string, 0, len(p.hosts)) in the actor
\* design (an empty slice)
madeSlice == IF design = "pool" THEN [i \in 1..hostCount |-> NoHost] ELSE <<>>

\* standardHostPool.Hosts: the slices it may return, one per iteration order
\* of p.hosts; the ids are appended to the slice that make built
HostsReturned == {madeSlice \o order : order \in MapOrders(DOMAIN hosts)}

\* ------------------------------------------------------ specification
Next ==
  \/ \E t \in bound.callers : GetCall(t)
  \/ \E t \in bound.callers : RRLock(t)
  \/ \E t \in bound.callers : RRStart(t)
  \/ \E t \in bound.callers : RRScan(t)
  \/ \E t \in bound.callers : RRDead(t)
  \/ \E t \in bound.callers : RRRetry(t)
  \/ \E t \in bound.callers : RRAdvance(t)
  \/ \E t \in bound.callers : RRReset(t)
  \/ \E t \in bound.callers : RRDone(t)
  \/ \E t \in bound.callers : MakeHostResponse(t)
  \/ \E t \in bound.callers : EGLock(t)
  \/ \E t \in bound.callers : EGExplore(t)
  \/ \E t \in bound.callers : EGDecay(t)
  \/ \E t \in bound.callers : EGPick(t)
  \/ \E t \in bound.callers : EGExploit(t)
  \/ \E t \in bound.callers : EGScan(t)
  \/ \E t \in bound.callers : EGDraw(t)
  \/ \E t \in bound.callers : EGIsDead(t)
  \/ \E t \in bound.callers : EGRetry(t)
  \/ \E t \in bound.callers : EGDone(t)
  \/ \E t \in bound.callers : EGUnlock(t)
  \/ \E t, o \in bound.callers, failed \in BOOLEAN : MarkCall(t, o, failed)
  \/ \E t \in bound.callers : RecordTiming(t)
  \/ \E t \in bound.callers : MarkOnce(t)
  \/ \E t \in bound.callers : MarkSkip(t)
  \/ \E t \in bound.callers : MarkSuccess(t)
  \/ \E t \in bound.callers : MarkRecord(t)
  \/ \E t \in bound.callers : MarkFailed(t)
  \/ \E t \in bound.callers : ResetAll(t)
  \/ Tick
  \/ PerformEpsilonGreedyDecay
  \/ \E h \in Hosts : PerformDecay(h)

Spec == Init /\ [][Next]_vars

\* the pool's operations and marks of an unknown host id
NextMarkHost ==
  \/ Next
  \/ \E t \in bound.callers, failed \in BOOLEAN : MarkHostCall(t, failed)
  \/ \E t \in bound.callers : MarkHostRun(t)

SpecMarkHost == Init /\ [][NextMarkHost]_vars

\* ------------------------------------------ a shared round-robin selector
NextProbe ==
  \/ \E t \in bound.callers : GetCall(t)
  \/ \E t \in bound.callers : RRLock(t)
  \/ \E t \in bound.callers : RRStart(t)
  \/ \E t \in bound.callers : RRScan(t)
  \/ \E t \in bound.callers : RRAdvance(t)
  \/ \E t \in bound.callers : RRReset(t)
  \/ \E t \in bound.callers : RRDone(t)
  \/ \E t \in bound.callers : MakeHostResponse(t)
  \/ \E t, o \in bound.callers, failed \in BOOLEAN : MarkCall(t, o, failed)
  \/ \E t \in bound.callers : MarkOnce(t)
  \/ \E t \in bound.callers : MarkSkip(t)
  \/ \E t \in bound.callers : MarkSuccess(t)
  \/ \E t \in bound.callers : MarkFailed(t)
  \/ \E t \in bound.callers : ResetAll(t)
  \/ Tick

SpecProbe == InitProbe /\ [][NextProbe]_vars

\* ----------------------------------------- round-robin Gets without end
NextLive ==
  \/ \E t \in bound.callers : GetForever(t)
  \/ \E t \in bound.callers : RRLock(t)
  \/ \E t \in bound.callers : RRStart(t)
  \/ \E t \in bound.callers : RRScan(t)
  \/ \E t \in bound.callers : RRDead(t)
  \/ \E t \in bound.callers : RRRetry(t)
  \/ \E t \in bound.callers : RRAdvance(t)
  \/ \E t \in bound.callers : RRReset(t)
  \/ \E t \in bound.callers : RRDone(t)
  \/ \E t \in bound.callers : MakeHostResponse(t)
  \/ \E t, o \in bound.callers, failed \in BOOLEAN : MarkCall(t, o, failed)
  \/ \E t \in bound.callers : MarkOnce(t)
  \/ \E t \in bound.callers : MarkSkip(t)
  \/ \E t \in bound.callers : MarkSuccess(t)
  \/ \E t \in bound.callers : MarkFailed(t)
  \/ \E t \in bound.callers : ResetAll(t)
  \/ Tick

\* the next step of the caller's goroutine: of the call under way, or, when
\* it is idle, a new Get
CallerStep ==
  \E t \in bound.callers :
    \/ GetForever(t)
    \/ RRLock(t) \/ RRStart(t) \/ RRScan(t) \/ RRDead(t) \/ RRRetry(t)
    \/ RRAdvance(t) \/ RRReset(t) \/ RRDone(t) \/ MakeHostResponse(t)
    \/ MarkOnce(t) \/ MarkSkip(t) \/ MarkSuccess(t) \/ MarkFailed(t)

\* the clock keeps advancing, and the goroutine of the caller goes on running
\* (alone on the pool, it never waits for the mutex)
LiveFairness ==
  /\ WF_vars(Tick)
  /\ WF_vars(CallerStep)

SpecLive == InitLive /\ [][NextLive]_vars /\ LiveFairness

\* ------------------------------------------------ a pool without hosts
\* round-robin Gets, ResetAll and the clock on a pool built from an empty list
\* (no response is ever returned, so there is nothing to mark)
NextEmpty ==
  \/ \E t \in bound.callers : GetCall(t)
  \/ \E t \in bound.callers : RRLock(t)
  \/ \E t \in bound.callers : RRStart(t)
  \/ \E t \in bound.callers : RRScan(t)
  \/ \E t \in bound.callers : RRReset(t)
  \/ \E t \in bound.callers : ResetAll(t)
  \/ Tick

SpecEmpty == InitEmpty /\ [][NextEmpty]_vars

\* ------------------------------------------------ a run of explorations
\* every Get of a pool built by NewEpsilonGreedy takes the exploration branch
\* and goes on to the round-robin pick; no host fails
NextEpsilon ==
  \/ \E t \in bound.callers : GetCall(t)
  \/ \E t \in bound.callers : EGLock(t)
  \/ \E t \in bound.callers : EGExplore(t)
  \/ \E t \in bound.callers : EGDecay(t)
  \/ \E t \in bound.callers : EGUnlock(t)
  \/ \E t \in bound.callers : RRLock(t)
  \/ \E t \in bound.callers : RRStart(t)
  \/ \E t \in bound.callers : RRScan(t)
  \/ \E t \in bound.callers : RRDead(t)
  \/ \E t \in bound.callers : RRAdvance(t)
  \/ \E t \in bound.callers : RRDone(t)
  \/ \E t \in bound.callers : MakeHostResponse(t)

SpecEpsilon == InitEpsilon /\ [][NextEpsilon]_vars

\* ------------------------------------------------ a decay store taken alone
\* muxRequests serving Record(score): the score goes into the current bucket
StoreRecord(h, score) ==
  /\ epsilonCounts[h][epsilonIndex[h]] < MaxStoreSamples
  /\ epsilonCounts' = [epsilonCounts EXCEPT ![h] = recordCounts(@, epsilonIndex[h])]
  /\ epsilonValues' = [epsilonValues EXCEPT ![h] = recordValues(@, epsilonIndex[h], score)]
  /\ UNCHANGED <<fixedVars, hosts, nextHostIndex, epsilon, epsilonIndex, lockHolder,
                 handles, pc, loc, picks>>

\* the store of the first host is sent Record requests and ticks of its decay
\* ticker; GetWeightedAvgScore reads it (hostAverage)
NextStore ==
  \/ \E score \in 0..MaxScore : StoreRecord(HostAt(0), score)
  \/ PerformDecay(HostAt(0))

SpecStore == InitStore /\ [][NextStore]_vars

\* ------------------------------------------------ a hostEntry taken alone
\* the requests a hostEntry serves (hostEntry.handleRequests of the actor
\* design, the hostEntry updates of standardSelector in the selector design),
\* made on the first host as the pool makes them: setDead from a Mark,
\* willRetryHost from a Get that found the host dead with its retry time passed
HostSetDead(newVal) ==
  /\ hosts' = [hosts EXCEPT ![HostAt(0)] =
                 IF design = "selector" THEN MarkHost(@, newVal) ELSE SetDead(@, newVal)]
  /\ UNCHANGED <<fixedVars, nextHostIndex, epsilon, decayVars, lockHolder,
                 handles, pc, loc, picks>>

HostWillRetry ==
  /\ hosts[HostAt(0)].dead
  /\ hosts[HostAt(0)].nextRetry < now
  /\ hosts' = [hosts EXCEPT ![HostAt(0)] = willRetryHost(@)]
  /\ UNCHANGED <<fixedVars, nextHostIndex, epsilon, decayVars, lockHolder,
                 handles, pc, loc, picks>>

NextHost ==
  \/ \E newVal \in BOOLEAN : HostSetDead(newVal)
  \/ HostWillRetry
  \/ Tick

SpecHost == InitHost /\ [][NextHost]_vars

\* ------------------------------------------------------------- claims
\* the entries of a sequence
Range(s) == {s[i] : i \in 1..Len(s)}

\* host h can be tried at atTime: it is alive, or its retry time has passed
Eligible(h, atTime) == ~hosts[h].dead \/ hosts[h].nextRetry < atTime

\* C1: after any sequence of Get, Mark(nil), Mark(err), ResetAll and clock
\* advances, every handle a Get has returned names a host of the configured set
GetReturnsConfiguredHost ==
  \A t \in Callers : handles[t] # NoHandle => handles[t].host \in Hosts

\* a Get has returned a handle, not marked yet, while some host is dead and the
\* clock has advanced
GetReturnedAfterFailure ==
  \E t \in Callers :
    /\ handles[t] # NoHandle
    /\ handles[t].marks = 0
    /\ now > 0
    /\ \E h \in Hosts : hosts[h].dead

RoundRobinFair ==
  /\ \A i, j \in 1..Len(picks) : (i < j /\ j - i < NumHosts) => picks[i] # picks[j]
  /\ \A i \in 1..Len(picks) : i + NumHosts <= Len(picks) => picks[i + NumHosts] = picks[i]

\* two full rounds have been handed out with all hosts alive and no mark
TwoRoundsPicked == Len(picks) = 2 * NumHosts /\ ~adaptive

\* C4: a Get that finds every host dead with its retry time not reached ends
\* its scan in the fail-open branch, which returns the first host of the
\* order and leaves every host alive
FailOpen ==
  [][\A t \in Callers :
       /\ (/\ pc[t] = "rrScan"
           /\ pc'[t] # "rrScan"
           /\ \A h \in Hosts : hosts[h].dead /\ hosts[h].nextRetry >= loc[t].tnow)
          => pc'[t] = "rrReset"
       /\ (pc[t] = "rrReset" /\ pc'[t] # "rrReset") =>
             /\ loc'[t].sel = HostAt(0)
             /\ loc'[t].sel \in Hosts
             /\ \A h \in Hosts : ~hosts'[h].dead]_vars

\* a Get has just taken the fail-open branch: it holds the first host, the
\* cursor is 0 and every host is alive
FailOpenTaken ==
  \E t \in Callers :
    /\ pc[t] = "rrDone"
    /\ nextHostIndex = 0
    /\ loc[t].sel = HostAt(0)
    /\ \A h \in Hosts : ~hosts[h].dead

\* C5: no caller waits for the pool lock while it holds the lock itself, on
\* any path of Get (round-robin, exploration, exploitation, fall-back) or Mark,
\* so that every Get returns
NoSelfDeadlock ==
  \A t \in Callers :
    pc[t] \in {"rrLock", "egLock", "mhr", "recTiming", "mkSuccess", "mkFailed"}
      => lockHolder # t

\* an adaptive Get of the pool design waits for the lock it took itself
GetWaitsForOwnLock ==
  \E t \in Callers : pc[t] = "rrLock" /\ lockHolder = t /\ adaptive /\ design = "pool"

\* C6: once markSuccess or markFailed has run for a handle, no step of any
\* Mark on that handle (with nil or an error, after the first Mark or racing
\* with it) changes the liveness flag, retry delay or retry time of any host
MarkAtMostOnce ==
  [][\A t \in Callers :
       (pc[t] \in MarkPcs /\ pc'[t] # pc[t] /\ handles[loc[t].tgt].applied >= 1)
         => hosts' = hosts]_vars

\* a second Mark, with an error, has reached the Once of a handle whose first
\* Mark reported success and is done, the host being alive
SecondMarkAtOnce ==
  \E t \in Callers :
    /\ pc[t] = "markOnce"
    /\ loc[t].markNo >= 2
    /\ loc[t].err
    /\ handles[loc[t].tgt].once = "done"
    /\ handles[loc[t].tgt].applied = 1
    /\ ~hosts[markedHost(t)].dead

\* C7: once the first Mark on a handle is done, no step of a Mark called
\* second or later on that handle changes the count or the sum of any bucket
\* of any host's window
SecondMarkKeepsSamples ==
  [][\A t \in Callers :
       (/\ pc[t] \in MarkPcs
        /\ pc'[t] # pc[t]
        /\ loc[t].markNo >= 2
        /\ handles[loc[t].tgt].once = "done")
         => UNCHANGED <<epsilonCounts, epsilonValues>>]_vars

\* a second Mark(nil) on a handle of the selector design has recorded its
\* timing after the first Mark was done
SecondMarkRecorded ==
  \E t \in Callers :
    /\ design = "selector"
    /\ adaptive
    /\ pc[t] = "markOnce"
    /\ loc[t].markNo >= 2
    /\ ~loc[t].err
    /\ handles[loc[t].tgt].once = "done"

\* C8: while a host stays dead its retry delay never decreases, a dead host's
\* retry delay is at most maxRetryInterval, and a host that turns from alive
\* to dead has the retry delay initialRetryDelay
BackoffGrowth ==
  [][\A h \in Hosts :
       /\ (hosts[h].dead /\ hosts'[h].dead) => hosts'[h].retryDelay >= hosts[h].retryDelay
       /\ hosts'[h].dead => hosts'[h].retryDelay <= maxRetryInterval
       /\ (~hosts[h].dead /\ hosts'[h].dead) => hosts'[h].retryDelay = initialRetryDelay]_vars

\* a dead host whose retry delay has reached the cap and is due for a probe
BackoffAtCap ==
  /\ hosts[HostAt(0)].dead
  /\ hosts[HostAt(0)].retryDelay = maxRetryInterval
  /\ hosts[HostAt(0)].nextRetry < now

\* the statements of a Get between reading the cursor and advancing it
RRCritical == {"rrStart", "rrScan", "rrDead", "rrRetry", "rrAdvance", "rrReset"}

\* C9: no two callers are inside the round-robin scan (between reading the
\* cursor and advancing it) at once, and up to NumHosts Gets made with all
\* hosts alive and no marks, concurrent or not, return different hosts
CursorAtomic ==
  /\ \A t, u \in Callers : (t # u /\ pc[t] \in RRCritical) => pc[u] \notin RRCritical
  /\ Len(picks) <= NumHosts => Cardinality(Range(picks)) = Len(picks)

\* two concurrent Gets: one is inside the scan, having read the cursor the
\* Get before it advanced, while the other waits for the lock
ConcurrentGetWaits ==
  \E t, u \in Callers :
    /\ t # u
    /\ pc[t] = "rrAdvance"
    /\ pc[u] = "rrLock"
    /\ Len(picks) = 1
    /\ ~adaptive

\* C10: a caller that has read epsilon in order to write it back holds the
\* pool lock
EpsilonUnderLock == \A t \in Callers : pc[t] = "egDecay" => lockHolder = t

\* two concurrent adaptive Gets have read the same epsilon: one decay step of
\* the two is lost
LostDecayStep ==
  \E t, u \in Callers :
    /\ t # u
    /\ pc[t] = "egDecay"
    /\ pc[u] = "egDecay"
    /\ loc[t].leps = loc[u].leps

\* C11: no step of a Mark with a non-nil error changes the count or the sum of
\* any bucket of any host's window, and its liveness update leaves the marked
\* host dead
MarkErrRecordsNothing ==
  [][\A t \in Callers :
       (pc[t] \in MarkPcs /\ pc'[t] # pc[t] /\ loc[t].err) =>
          /\ UNCHANGED <<epsilonCounts, epsilonValues>>
          /\ pc[t] = "mkFailed" => hosts'[markedHost(t)].dead]_vars

\* a Mark with an error on a handle of the adaptive selector is done: the host
\* is dead and no window holds a sample
MarkErrDone ==
  /\ design = "selector"
  /\ adaptive
  /\ \E o \in Callers :
       /\ handles[o].applied = 1
       /\ handles[o].once = "done"
       /\ hosts[handles[o].host].dead
  /\ \A h \in Hosts, b \in Buckets : epsilonCounts[h][b] = 0 /\ epsilonValues[h][b] = 0

\* natural numbers of any size, as sequences of decimal digits, the least
\* significant first
RECURSIVE Digits(_)
Digits(n) == IF n < 10 THEN <<n>> ELSE <<n % 10>> \o Digits(n \div 10)

RECURSIVE TimesFrom(_, _, _, _)
TimesFrom(x, c, i, carry) ==
  IF i > Len(x) THEN (IF carry = 0 THEN <<>> ELSE Digits(carry))
  ELSE LET v == x[i] * c + carry
       IN <<v % 10>> \o TimesFrom(x, c, i + 1, v \div 10)

\* x * c and x * c^n, for a positive c below 2^24
Times(x, c) == TimesFrom(x, c, 1, 0)

RECURSIVE TimesPower(_, _, _)
TimesPower(x, c, n) ==
  IF n = 0 THEN x
  ELSE LET y == Times(x, c)
       IN IF Len(y) > 0 THEN TimesPower(y, c, n - 1) ELSE y

RECURSIVE LeqFrom(_, _, _)
LeqFrom(x, y, i) ==
  IF i = 0 THEN TRUE
  ELSE IF x[i] # y[i] THEN x[i] < y[i] ELSE LeqFrom(x, y, i - 1)

BigLeq(x, y) == Len(x) < Len(y) \/ (Len(x) = Len(y) /\ LeqFrom(x, y, Len(x)))

\* 0.3 * 0.90^k as the fraction 3 * 9^k / 10^(k+1), and whether it is at most
\* 0.01
DecayedNum(k) == TimesPower(<<3>>, 9, k)
DecayedDen(k) == TimesPower(<<1>>, 10, k + 1)
BelowFloor(k) == BigLeq(Times(DecayedNum(k), 100), DecayedDen(k))

\* the float32 f equals max(0.01, 0.3 * 0.90^k) to float32 precision: the two
\* differ by less than one millionth of the latter
NearDecayed(f, k) ==
  LET num == IF BelowFloor(k) THEN <<1>> ELSE DecayedNum(k)
      den == IF BelowFloor(k) THEN Digits(100) ELSE DecayedDen(k)
      got == Times(Times(den, f.m), 1000000)
      want == TimesPower(num, 2, f.e)
  IN /\ BigLeq(got, Times(want, 1000001))
     /\ BigLeq(Times(want, 999999), got)

\* the exploration steps whose decay has run, in a run where every Get explores
Explorations ==
  calls - (IF \E t \in bound.callers : pc[t] \in {"egLock", "egRand", "egDecay"}
           THEN 1 ELSE 0)

\* C12: after k explorations of a new adaptive pool, with no exploitation in
\* between, epsilon is max(0.01, 0.3 * 0.90^k) (to the precision of the
\* float32 that holds it)
EpsilonFollowsDecay == NearDecayed(epsilon, Explorations)

\* epsilon has been decayed down to its floor and explorations went on
EpsilonAtFloor ==
  /\ epsilon = minEpsilon
  /\ Explorations >= 35
  /\ BelowFloor(Explorations)
  /\ ~BelowFloor(32)

\* the window of host h holds one sample, recorded since its last rotation
SingleSample(h) ==
  /\ epsilonCounts[h][epsilonIndex[h]] = 1
  /\ \A b \in Buckets : b # epsilonIndex[h] => epsilonCounts[h][b] = 0

\* C13: when the only sample a decay window holds is a value v recorded since
\* the last rotation (in particular the first Record on a fresh window), the
\* weighted average is exactly v
SingleSampleAverage ==
  \A h \in Hosts :
    SingleSample(h) => hostAverage(h) = <<epsilonValues[h][epsilonIndex[h]], 1>>

\* Record(MaxScore) has been served by a fresh window
SingleSampleRecorded ==
  /\ SingleSample(HostAt(0))
  /\ epsilonIndex[HostAt(0)] = 0
  /\ epsilonValues[HostAt(0)][0] = MaxScore

\* C14: a mark of a host id the pool was not given ends in the exit of the
\* process (log.Fatalf) and changes no host's liveness, backoff or decay
\* window; nothing changes them after the exit either
UnknownHostIsFatal ==
  [][/\ \A t \in Callers :
          (pc[t] = "markHost" /\ pc'[t] # "markHost" /\ loc[t].sel \notin Hosts) =>
             /\ \A u \in Callers : pc'[u] = "exited"
             /\ UNCHANGED <<hosts, decayVars>>
     /\ ~Running => UNCHANGED <<hosts, decayVars, pc>>]_vars

\* the process has exited on a mark of an unknown id, in a pool that held a
\* dead host
ExitedOnUnknownHost ==
  /\ ~Running
  /\ \E t \in Callers : loc[t].sel = UnknownHost
  /\ \E h \in Hosts : hosts[h].dead

\* C15: a pool built from an empty host list cannot be used: no caller is ever
\* inside a Get of a pool that has no hosts
NoGetOnEmptyPool == hostCount = 0 => \A t \in Callers : pc[t] \notin GetPcs

\* the first Get of a pool built from an empty list has panicked at hostList[0]
GetPanickedOnEmptyPool ==
  /\ hostCount = 0
  /\ \E t \in Callers : pc[t] = "panicked"
  /\ calls = 1

\* C16: in every state Hosts() returns the configured ids, each exactly once,
\* and no other entry (the empty string, NoHost, in particular)
HostsReturnsConfigured ==
  design \in {"pool", "actor"} =>
    \A r \in HostsReturned :
      /\ Len(r) = NumHosts
      /\ \A h \in Hosts : Cardinality({i \in DOMAIN r : r[i] = h}) = 1
      /\ \A i \in DOMAIN r : r[i] \in Hosts

\* Hosts() of the pool design returns a slice that starts with an empty string
HostsStartsWithEmpty ==
  /\ design = "pool"
  /\ \E r \in HostsReturned : Len(r) = 2 * NumHosts /\ r[1] = NoHost
  /\ \E t \in Callers : handles[t] # NoHandle

\* the willRetryHost calls made by the Get that caller t ends with this step
RetriesOfGet(t) ==
  loc[t].retries +
  (IF pc[t] = "mhr" /\ hosts'[loc[t].sel] # hosts[loc[t].sel] THEN 1 ELSE 0)

\* C17: a Get that found its host dead with the retry time passed, and returns
\* it still dead, has advanced the host's backoff exactly once (not zero times,
\* not twice)
ProbeAdvances ==
  [][\A t \in Callers :
       (/\ pc[t] \in {"rrDone", "egDone", "mhr"}
        /\ pc'[t] = "idle"
        /\ loc[t].probe
        /\ hosts[loc[t].sel].dead) => RetriesOfGet(t) = 1]_vars

\* a Get has chosen a dead host for a probe and is about to build its response,
\* but another Get's response has moved the host's retry time on
ProbeFindsWindowClosed ==
  \E t \in Callers :
    /\ pc[t] = "mhr"
    /\ loc[t].probe
    /\ hosts[loc[t].sel].dead
    /\ ~(hosts[loc[t].sel].nextRetry < now)

\* host h after the failure of a request to it has been reported
MarkedFailed(h) ==
  IF design = "selector" THEN MarkHost(hosts[h], TRUE) ELSE SetDead(hosts[h], TRUE)

\* C18: reporting a failure of a dead host changes nothing of it (liveness,
\* retry delay, retry time); reporting a failure of a live host makes it dead
\* with the initial retry delay and the retry time now + that delay
FailureOfDeadHostIgnored ==
  \A h \in Hosts :
    IF hosts[h].dead
    THEN MarkedFailed(h) = hosts[h]
    ELSE MarkedFailed(h) = [dead |-> TRUE, retryDelay |-> initialRetryDelay,
                            nextRetry |-> now + initialRetryDelay]

\* a dead host has backed off beyond the initial delay and its retry time has
\* passed: re-arming its timer would show
DeadHostBackedOff ==
  /\ hosts[HostAt(0)].dead
  /\ hosts[HostAt(0)].retryDelay > initialRetryDelay
  /\ hosts[HostAt(0)].nextRetry < now

\* C19: CanTry(now) is true exactly when the host is alive, or dead with its
\* retry time strictly before now; at now = nextRetry a dead host cannot be
\* tried yet
CanTryAfterRetryTime ==
  \A h \in Hosts :
    /\ canTryHost(hosts[h], now) <=> (~hosts[h].dead \/ now > hosts[h].nextRetry)
    /\ (hosts[h].dead /\ now = hosts[h].nextRetry) => ~canTryHost(hosts[h], now)

\* C19 as stated: CanTry(now) is true exactly when the host is alive, or dead
\* with now >= nextRetry
CanTryFromRetryTime ==
  \A h \in Hosts :
    canTryHost(hosts[h], now) <=> (~hosts[h].dead \/ now >= hosts[h].nextRetry)

\* the clock has reached the retry time of a dead host that has backed off
DeadHostAtRetryTime ==
  /\ hosts[HostAt(0)].dead
  /\ hosts[HostAt(0)].retryDelay > initialRetryDelay
  /\ hosts[HostAt(0)].nextRetry = now

\* C20: willRetryHost sets the retry delay to the smaller of twice the
\* previous delay and maxRetryInterval, the retry time to now + the new
\* delay, and leaves the liveness flag as it was
WillRetryDoublesToCap ==
  \A h \in Hosts :
    LET he == hosts[h]
        after == willRetryHost(he)
        delay == IF 2 * he.retryDelay <= maxRetryInterval
                 THEN 2 * he.retryDelay ELSE maxRetryInterval
    IN /\ after.retryDelay = delay
       /\ after.nextRetry = now + delay
       /\ after.dead = he.dead

\* willRetryHost has just served a host that failed once, at a later time
RetryJustArmed ==
  /\ hosts[HostAt(0)].dead
  /\ hosts[HostAt(0)].retryDelay = 2 * initialRetryDelay
  /\ hosts[HostAt(0)].nextRetry = now + 2 * initialRetryDelay
  /\ now > initialRetryDelay + 1

\* C21: the round-robin cursor lies in [0, N]: after a Get returned the last
\* host in order it equals N, and the scan reduces it modulo N when it reads it
CursorWithinLength == nextHostIndex \in 0..NumHosts

\* C21 as stated: the round-robin cursor lies in [0, N)
CursorBelowLength == nextHostIndex \in 0..(NumHosts - 1)

\* a Get has returned the last host in order
CursorAtLength ==
  /\ nextHostIndex = NumHosts
  /\ \E t \in Callers : handles[t] # NoHandle /\ handles[t].host = HostAt(NumHosts - 1)

\* caller t's Get returns with this step (its handle is replaced)
GetReturns(t) == pc[t] \in {"rrDone", "egDone", "mhr"} /\ pc'[t] = "idle"

\* C22: in round-robin mode, when a caller that uses the pool alone makes two
\* Gets in a row with no Mark in between and all hosts alive at the second,
\* the second Get returns the host that follows, in order, the host the first
\* one returned (also when the first was served by the fail-open reset)
NextGetReturnsFollowing ==
  [][\A t \in Callers :
       (/\ GetReturns(t)
        /\ ~adaptive
        /\ bound.callers = {t}
        /\ handles[t] # NoHandle
        /\ handles[t].marks = 0
        /\ AllAlive) => handles'[t].host = HostAt(handles[t].host % NumHosts)]_vars

\* a Get served by the fail-open reset is about to return the first host and
\* has left the cursor on it
FailOpenLeavesCursorAtFirst ==
  \E t \in Callers :
    /\ pc[t] = "rrDone"
    /\ loc[t].sel = firstHost
    /\ nextHostIndex = 0
    /\ ~adaptive

\* caller t's Mark(nil) on an adaptive response has done one of its two
\* updates and not yet the other: the host is set alive and the sample is not
\* recorded (pool and actor designs), or the sample is recorded and the host is
\* not yet set alive (selector design)
HalfMarked(t) ==
  /\ adaptive
  /\ ~loc[t].err
  /\ \/ pc[t] = "mkRecord"
     \/ /\ design = "selector"
        /\ pc[t] = "mkSuccess"

\* C23: Mark(nil) on an adaptive response is indivisible: between the
\* recording of the sample and the SetDead(false) no other goroutine enters a
\* critical section of the pool and nothing but the Mark changes the pool's
\* hosts and windows
MarkNilIndivisible ==
  [][\A t \in Callers :
       HalfMarked(t) => /\ lockHolder' \in {NoCaller, t}
                        /\ pc'[t] = pc[t] => UNCHANGED poolVars]_vars

\* another goroutine is inside a critical section of the pool between the two
\* updates of a Mark(nil)
LockTakenInsideMark ==
  \E t \in Callers : HalfMarked(t) /\ lockHolder \notin {NoCaller, t}

\* C24: the decay clock is global: every host's window has the same current
\* index in every state (a rotation of all windows is one step)
SharedDecayClock ==
  \A g, h \in Hosts : epsilonIndex[g] = epsilonIndex[h]

\* with no call in progress, one host's window has been rotated by its store's
\* ticker and another host's has not
WindowsApart ==
  /\ \A t \in Callers : pc[t] = "idle"
  /\ \E g, h \in Hosts : epsilonIndex[g] # epsilonIndex[h]

\* a bucket of h's window holds a sample of positive value
HoldsPositiveSample(h) ==
  \E b \in Buckets : epsilonCounts[h][b] > 0 /\ epsilonValues[h][b] > 0

\* C25: the weighted average is 0 exactly when no bucket of the window holds a
\* sample of positive value: a positive sample keeps it non-zero for as long
\* as its bucket has not been cleared by a rotation
AverageZeroIffNoPositiveSample ==
  \A h \in Hosts : (hostAverage(h) = <<0, 1>>) <=> ~HoldsPositiveSample(h)

\* C25 as stated: once the weighted average is non-zero it stays non-zero
\* after any later rotation or record
AverageStaysNonZero ==
  [][\A h \in Hosts : hostAverage(h) # <<0, 1>> => hostAverage(h)' # <<0, 1>>]_vars

\* the only positive sample of the window is in its oldest bucket, which the
\* next rotation clears
PositiveSampleInOldestBucket ==
  LET h == HostAt(0)
      oldest == rotateIndex(epsilonIndex[h])
  IN /\ epsilonValues[h][oldest] > 0
     /\ \A b \in Buckets : b # oldest => epsilonCounts[h][b] = 0
     /\ hostAverage(h) # <<0, 1>>

\* the window w after k rotations with no record in between
RECURSIVE rotatedTimes(_, _)
rotatedTimes(w, k) == IF k = 0 THEN w ELSE rotatedTimes(rotateWindow(w), k - 1)

windowAverage(w) == getWeightedAverageResponseTime(w.index, w.counts, w.values)

\* C26: the samples recorded into the current bucket are still in the window
\* after each of the next NumBuckets - 1 rotations (and, if of positive value,
\* keep the weighted average positive), and the bucket is zeroed by the
\* NumBuckets-th rotation
SampleAging ==
  \A h \in Hosts :
    LET w == windowOf(h)
        b == w.index
    IN w.counts[b] > 0 =>
         /\ \A k \in 1..(NumBuckets - 1) :
              LET r == rotatedTimes(w, k)
              IN /\ r.counts[b] = w.counts[b]
                 /\ r.values[b] = w.values[b]
                 /\ w.values[b] > 0 => RLess(<<0, 1>>, windowAverage(r))
         /\ LET r == rotatedTimes(w, NumBuckets)
            IN /\ r.counts[b] = 0
               /\ r.values[b] = 0
               /\ windowAverage(r) = <<0, 1>>

\* the current bucket holds samples recorded since the last rotation, and the
\* bucket before it holds older ones
SamplesOfTwoAges ==
  LET w == windowOf(HostAt(0))
  IN /\ w.counts[w.index] > 0
     /\ w.values[w.index] > 0
     /\ w.counts[(w.index + NumBuckets - 1) % NumBuckets] > 0

\* host h can be tried at atTime and its weighted average is strictly positive
Scored(h, atTime) == Eligible(h, atTime) /\ RLess(<<0, 1>>, hostAverage(h))

\* C27: an exploitation step draws only among hosts that could be tried at the
\* time the step read and had a strictly positive weighted average when it
\* examined them; when there is no such host, or the draw chooses none, the
\* pick is left to the round-robin path
ExploitsScoredHostsOnly ==
  [][\A t \in Callers :
       /\ (pc[t] = "egRand" /\ pc'[t] \notin {"egRand", "egDecay", "egScan"}) =>
             /\ loc'[t].sel # NoHost => Scored(loc'[t].sel, now)
             /\ (\A h \in Hosts : ~Scored(h, now)) => loc'[t].sel = NoHost
             /\ loc'[t].sel = NoHost => pc'[t] \in {"rrLock", "egUnlock"}
       /\ (pc[t] = "egScan" /\ Len(loc'[t].poss) > Len(loc[t].poss)) =>
             Scored(loc'[t].poss[Len(loc'[t].poss)], loc[t].tnow)
       /\ (pc[t] = "egScan" /\ pc'[t] # "egScan") =>
             /\ loc'[t].sel # NoHost => loc'[t].sel \in Range(loc[t].poss)
             /\ loc'[t].sel = NoHost => pc'[t] = "rrLock"
       /\ (pc[t] = "egUnlock" /\ pc'[t] # "egUnlock" /\ loc[t].sel = NoHost) =>
             pc'[t] = "rrLock"]_vars

\* an exploitation step has drawn a host while another host has no data
DrawnAmongScoredHosts ==
  \E t \in Callers :
    /\ adaptive
    /\ pc[t] \in {"egDone", "egUnlock", "egIsDead", "egRetry"}
    /\ loc[t].sel # NoHost
    /\ \E g \in Hosts : hostAverage(g) = <<0, 1>>

\* the sum of the scores of the hosts of S among the first i + 1 hosts of the
\* configured order
RECURSIVE ScoreUpTo(_, _, _)
ScoreUpTo(S, score, i) ==
  IF i < 0 THEN <<0, 1>>
  ELSE RAdd(ScoreUpTo(S, score, i - 1),
            IF HostAt(i) \in S THEN score[HostAt(i)] ELSE <<0, 1>>)

\* the first host of S, in the configured order, whose cumulative normalized
\* score reaches or exceeds p
FirstReaching(S, score, p) ==
  LET total == ScoreUpTo(S, score, NumHosts - 1)
      reached == {i \in 0..(NumHosts - 1) :
                    HostAt(i) \in S /\ RLeq(p, RDiv(ScoreUpTo(S, score, i), total))}
  IN HostAt(CHOOSE i \in reached : \A j \in reached : i <= j)

\* the host chosen by the draw of this step, if the step is one
DrawnFirstReaching ==
  \A t \in Callers :
    /\ (pc[t] = "egRand" /\ pc'[t] \notin {"egRand", "egDecay", "egScan"}
        /\ loc'[t].sel # NoHost) =>
          loc'[t].sel =
            FirstReaching({h \in Hosts : Scored(h, now)},
                          [h \in Hosts |-> CalcValueFromAvgResponseTime(hostAverage(h))],
                          loc'[t].pick)
    /\ (pc[t] = "egScan" /\ pc'[t] # "egScan" /\ loc'[t].sel # NoHost) =>
          loc'[t].sel =
            FirstReaching(Range(loc[t].poss),
                          [h \in Hosts |->
                             IF h \in Range(loc[t].poss)
                             THEN loc[t].vals[CHOOSE k \in DOMAIN loc[t].poss :
                                                loc[t].poss[k] = h]
                             ELSE <<0, 1>>],
                          loc'[t].pick)

\* C28: the host a weighted draw chooses is the first host, in the configured
\* order of the hosts, whose cumulative normalized score reaches or exceeds the
\* number drawn
DrawTakesFirstReaching == [][DrawnFirstReaching]_vars

\* the scan of the map has put the second host of the configured order before
\* the first in possibleHosts
ScannedOutOfOrder ==
  \E t \in Callers :
    /\ pc[t] = "egScan"
    /\ loc[t].todo = {}
    /\ Len(loc[t].poss) = NumHosts
    /\ loc[t].poss[1] = HostAt(1)
    /\ loc[t].poss[2] = HostAt(0)

\* caller t is inside a Get that has selected host h as a probe: h was dead
\* with its retry time passed, and the Get has not returned yet
Probing(t, h) == pc[t] \in GetPcs /\ loc[t].probe /\ loc[t].sel = h

\* C29: a dead host whose retry time has passed is selected as a probe by one
\* Get at a time: no two Gets in progress have selected the same host as a
\* probe
ProbeUnique ==
  \A t, u \in Callers : \A h \in Hosts :
    (Probing(t, h) /\ Probing(u, h)) => t = u

\* two Gets have left SelectNextHost with the same dead host and neither has
\* reached MakeHostResponse's re-arming of its backoff
TwoProbesOfOneWindow ==
  \E t, u \in Callers : \E h \in Hosts :
    /\ t # u
    /\ Probing(t, h) /\ pc[t] = "mhr"
    /\ Probing(u, h) /\ pc[u] = "mhr"
    /\ hosts[h].dead
    /\ hosts[h].nextRetry < now

\* a round-robin Get has chosen host h and is returning it
Returning(h) == \E t \in Callers : pc[t] \in {"rrDone", "mhr"} /\ loc[t].sel = h

\* the clock of the run stops before host h, dead, can be tried again
RetryBeyondRun(h) == hosts[h].dead /\ hosts[h].nextRetry >= bound.time

\* C30: in round-robin mode, with the clock advancing and Get called for ever,
\* a host that is dead, with a retry time the clock of the run gets past, is
\* eventually returned by a Get, whatever the state of the other hosts (unless
\* it was revived and marked dead anew so late that the clock of the run stops
\* before its retry time)
DeadHostReturned ==
  \A h \in Hosts :
    (hosts[h].dead /\ ~RetryBeyondRun(h)) ~> (Returning(h) \/ RetryBeyondRun(h))

\* a Get is about to return, as a probe, a dead host while every other host is
\* alive
DeadHostProbedAmongAlive ==
  \E t \in Callers :
    /\ pc[t] = "rrDone"
    /\ loc[t].probe
    /\ hosts[loc[t].sel].dead
    /\ \A g \in Hosts : g # loc[t].sel => ~hosts[g].dead

\* the average of the samples bucket b of h's window holds (b holds samples)
bucketAverage(h, b) == <<epsilonValues[h][b], epsilonCounts[h][b]>>

\* C31: the weighted average is no larger than the largest per-bucket sample
\* average stored in the window, and is 0 when the window holds no sample; so
\* a window whose every sample equals v has weighted average v
AverageWithinLargestBucket ==
  \A h \in Hosts :
    IF \A b \in Buckets : epsilonCounts[h][b] = 0
    THEN hostAverage(h) = <<0, 1>>
    ELSE \E b \in Buckets : /\ epsilonCounts[h][b] > 0
                            /\ RLeq(hostAverage(h), bucketAverage(h, b))

\* every sample the window holds has the same positive value v, in a bucket
\* older than the current one, and the weighted average is larger than v
EqualSamplesAverageAbove ==
  LET h == HostAt(0)
  IN \E v \in 1..MaxScore :
       /\ \E b \in Buckets : b # epsilonIndex[h] /\ epsilonCounts[h][b] > 0
       /\ \A b \in Buckets : epsilonValues[h][b] = v * epsilonCounts[h][b]
       /\ RLess(<<v, 1>>, hostAverage(h))

====
